---- MODULE Spec2Model ----
(***************************************************************************)
(* llmgrep: semantic file search in two passes.                            *)
(*   llmsort.rs  collects the eligible files below a directory, scores     *)
(*               their names with the oracle in batches and sorts them;    *)
(*   llmgrep.rs  re-reads the ranked files, cuts their text into chunks    *)
(*               and asks the oracle about each chunk.                     *)
(*                                                                         *)
(* Representation.                                                         *)
(*   path      a sequence of path components (strings); the search root    *)
(*             is the empty sequence.                                      *)
(*   content   the bytes of a file, run-length encoded: a sequence of runs *)
(*             [unit, n], the byte sequence `unit` repeated n >= 1 times.  *)
(*   text      decoded characters, run-length encoded: runs [ch, n] of the *)
(*             code point ch repeated n >= 1 times.                        *)
(*   score     an f32 of the program, kept in tenths: 9 is 0.9, 15 is 1.5, *)
(*             -5 is -0.5.  Only comparisons are made on scores.           *)
(***************************************************************************)
EXTENDS Integers, Sequences, FiniteSets, TLC

\* llmsort.rs
MAX_FILE_SIZE == 1024 * 1024
BATCH_SIZE == 100
MIN_BINARY_CHECK_SIZE == 1000
BINARY_THRESHOLD == 300
MAX_SORT_TRY_COUNT == 3
\* llmgrep.rs
CHUNK_SIZE == 2000
\* the literal of `while try_count < 3` in search_directory
SEARCH_TRY_LIMIT == 3

Min(a, b) == IF a < b THEN a ELSE b

(***************************************************************************)
(* File contents: bytes                                                    *)
(***************************************************************************)
RECURSIVE ByteLen(_)
\* content.len(), and metadata.len() of a regular file
ByteLen(content) ==
    IF content = <<>> THEN 0
    ELSE Len(Head(content).unit) * Head(content).n + ByteLen(Tail(content))

\* the predicate of the filter in is_binary_file
NonAsciiByte(byte) == byte = 0 \/ byte >= 128

\* how many of the first k bytes of one unit the filter counts
NonAsciiInUnit(unit, k) == Cardinality({i \in 1..Min(k, Len(unit)) : NonAsciiByte(unit[i])})

RECURSIVE NonAsciiCount(_, _)
\* content.iter().take(check_size).filter(..).count()
NonAsciiCount(content, check_size) ==
    IF content = <<>> \/ check_size <= 0 THEN 0
    ELSE LET run == Head(content)
             w == Len(run.unit)
             take == Min(w * run.n, check_size)
         IN  (take \div w) * NonAsciiInUnit(run.unit, w)
             + NonAsciiInUnit(run.unit, take % w)
             + NonAsciiCount(Tail(content), check_size - take)

\* a variant of is_binary_file that counts over the whole buffer
is_binary_file_whole(content) ==
    NonAsciiCount(content, ByteLen(content)) > BINARY_THRESHOLD

is_binary_file(content) ==
    LET check_size == Min(ByteLen(content), MIN_BINARY_CHECK_SIZE)
        non_ascii_count == NonAsciiCount(content, check_size)
    IN  non_ascii_count > BINARY_THRESHOLD

\* One unit is well-formed UTF-8: an ASCII byte, or a two-byte sequence
\* (lead C2..DF, continuation 80..BF).  Units are chosen so that no
\* well-formed sequence spans two units.
ValidUnit(unit) ==
    \/ Len(unit) = 1 /\ unit[1] < 128
    \/ Len(unit) = 2 /\ unit[1] \in 194..223 /\ unit[2] \in 128..191

\* String::from_utf8(content).is_ok()
from_utf8_ok(content) == \A i \in 1..Len(content) : ValidUnit(content[i].unit)

(***************************************************************************)
(* Decoded text and chunks                                                 *)
(***************************************************************************)
REPLACEMENT_CHARACTER == 65533

\* the characters one unit decodes to under String::from_utf8_lossy: the
\* code point of a well-formed unit, U+FFFD for each byte of an ill-formed one
DecodeUnit(unit) ==
    IF ValidUnit(unit)
    THEN IF Len(unit) = 1 THEN <<unit[1]>>
         ELSE <<(unit[1] - 192) * 64 + (unit[2] - 128)>>
    ELSE [i \in 1..Len(unit) |-> REPLACEMENT_CHARACTER]

RECURSIVE from_utf8_lossy(_)
from_utf8_lossy(content) ==
    IF content = <<>> THEN <<>>
    ELSE LET run == Head(content)
             chars == DecodeUnit(run.unit)
         IN  [i \in 1..Len(chars) |-> [ch |-> chars[i], n |-> run.n]]
             \o from_utf8_lossy(Tail(content))

RECURSIVE CharLen(_)
\* content_str.chars().count()
CharLen(text) ==
    IF text = <<>> THEN 0 ELSE Head(text).n + CharLen(Tail(text))

RECURSIVE TakeChars(_, _)
\* the first k characters of text
TakeChars(text, k) ==
    IF text = <<>> \/ k <= 0 THEN <<>>
    ELSE IF Head(text).n <= k
         THEN <<Head(text)>> \o TakeChars(Tail(text), k - Head(text).n)
         ELSE <<[ch |-> Head(text).ch, n |-> k]>>

RECURSIVE DropChars(_, _)
\* text without its first k characters
DropChars(text, k) ==
    IF text = <<>> \/ k <= 0 THEN text
    ELSE IF Head(text).n <= k
         THEN DropChars(Tail(text), k - Head(text).n)
         ELSE <<[ch |-> Head(text).ch, n |-> Head(text).n - k]>> \o Tail(text)

RECURSIVE ChunksOf(_, _)
\* slice::chunks(size): consecutive pieces of `size` elements, the last one shorter
ChunksOf(text, size) ==
    IF text = <<>> THEN <<>>
    ELSE <<TakeChars(text, size)>> \o ChunksOf(DropChars(text, size), size)

\* a variant of chunks that cuts one character early
chunks_short(text) == ChunksOf(text, CHUNK_SIZE - 1)

\* content_str.chars().collect::<Vec<char>>().chunks(CHUNK_SIZE)
chunks(text) == ChunksOf(text, CHUNK_SIZE)

(***************************************************************************)
(* Paths and ignore patterns                                               *)
(***************************************************************************)
\* Path::starts_with: base is a prefix of path, component by component
starts_with(path, base) ==
    Len(base) <= Len(path) /\ SubSeq(path, 1, Len(base)) = base

\* path.strip_prefix(root).unwrap_or(path)
strip_prefix_or(path, root) ==
    IF starts_with(path, root) THEN SubSeq(path, Len(root) + 1, Len(path)) ELSE path

\* ignore_paths: a sequence of patterns, each the components of Path::new(ignore)
should_ignore(path, root, ignore_paths) ==
    LET rel_path == strip_prefix_or(path, root)
    IN  \E i \in 1..Len(ignore_paths) : starts_with(rel_path, ignore_paths[i])

\* path.file_name(), lossily converted, "" when there is none
file_name(path) == IF path = <<>> THEN "" ELSE path[Len(path)]

(***************************************************************************)
(* The file tree                                                           *)
(*   directory  [kind |-> "dir", readable, entries]; entries is the        *)
(*              sequence read_dir yields, of [name, node]                  *)
(*   file       [kind |-> "file", metadata, readable, content]; metadata   *)
(*              and readable say whether entry.metadata() and fs::read     *)
(*              succeed                                                    *)
(***************************************************************************)
Ok(v) == [ok |-> TRUE, val |-> v]
Err == [ok |-> FALSE, val |-> <<>>]

\* the checks collect_candidates makes on a file entry, in its order
FileEligible(node) ==
    /\ node.metadata
    /\ ~(ByteLen(node.content) > MAX_FILE_SIZE)
    /\ node.readable
    /\ ~is_binary_file(node.content)
    /\ from_utf8_ok(node.content)

RECURSIVE ConcatRange(_, _, _)
\* seqs[lo] \o ... \o seqs[hi]
ConcatRange(seqs, lo, hi) ==
    IF lo > hi THEN <<>>
    ELSE IF lo = hi THEN seqs[lo]
    ELSE LET mid == (lo + hi) \div 2
         IN  ConcatRange(seqs, lo, mid) \o ConcatRange(seqs, mid + 1, hi)

RECURSIVE collect_candidates(_, _, _)
RECURSIVE collect_entry(_, _, _)
\* collect_candidates(dir, ignore_paths), node being what read_dir(dir) reads:
\* the candidates of the entries, appended in entry order; the error of a
\* sub-directory is returned by `?` and nothing is kept
collect_candidates(node, dir, ignore_paths) ==
    IF ~node.readable THEN Err
    ELSE LET found == [i \in 1..Len(node.entries) |->
                          collect_entry(node.entries[i], dir, ignore_paths)]
         IN  IF \E i \in 1..Len(found) : ~found[i].ok THEN Err
             ELSE Ok(ConcatRange([i \in 1..Len(found) |-> found[i].val], 1, Len(found)))

\* one pass of the for loop: what the entry adds to candidates.  The
\* recursive call passes the sub-directory as `dir`, and `dir` is what
\* should_ignore receives as its root.
collect_entry(entry, dir, ignore_paths) ==
    LET path == Append(dir, entry.name)
    IN  IF should_ignore(path, dir, ignore_paths) THEN Ok(<<>>)
        ELSE IF entry.node.kind = "dir"
        THEN collect_candidates(entry.node, path, ignore_paths)
        ELSE IF FileEligible(entry.node) THEN Ok(<<path>>)
        ELSE Ok(<<>>)

RECURSIVE Lookup(_, _)
\* the node a path names in the tree, [kind |-> "none"] when there is none
Lookup(node, path) ==
    IF path = <<>> THEN node
    ELSE IF node.kind # "dir" THEN [kind |-> "none"]
    ELSE LET hits == {i \in 1..Len(node.entries) : node.entries[i].name = Head(path)}
         IN  IF hits = {} THEN [kind |-> "none"]
             ELSE Lookup(node.entries[CHOOSE i \in hits : TRUE].node, Tail(path))

(***************************************************************************)
(* Scoring one batch                                                       *)
(*   A received response is a JSON text, modelled by what serde sees:      *)
(*     [kind |-> "object", entries]  the shape FileScores is read from,    *)
(*                                   {"filenames": [ ... ]}                *)
(*     [kind |-> "array", entries]   the shape Vec<FileScore> is read      *)
(*                                   from, [ ... ]                         *)
(*     [kind |-> "garbage"]          anything else                         *)
(*   an entry is [filename, score], or [filename] when the score field is  *)
(*   missing, which makes the whole text fail to deserialize.              *)
(***************************************************************************)
EntryOk(e) == "score" \in DOMAIN e

\* both from_str calls need every element to deserialize as a FileScore
EntriesOk(response) == \A i \in 1..Len(response.entries) : EntryOk(response.entries[i])

\* a variant of parse_scores without the second attempt
parse_scores_object_only(response) ==
    IF response.kind = "object" /\ EntriesOk(response) THEN response.entries
    ELSE <<>>

\* serde_json::from_str::<FileScores>, then from_str::<Vec<FileScore>>, then Vec::new()
parse_scores(response) ==
    IF response.kind = "object" /\ EntriesOk(response) THEN response.entries
    ELSE IF response.kind = "array" /\ EntriesOk(response) THEN response.entries
    ELSE <<>>

\* a variant of find_score that takes the last matching entry
find_score_last(scores, name) ==
    LET hits == {j \in 1..Len(scores) : scores[j].filename = name}
    IN  IF hits = {} THEN 0
        ELSE scores[CHOOSE j \in hits : \A k \in hits : j >= k].score

\* scores.iter().find(|score| score.filename == *name).map_or_else(|| 0.0, |score| score.score)
find_score(scores, name) ==
    LET hits == {j \in 1..Len(scores) : scores[j].filename = name}
    IN  IF hits = {} THEN 0
        ELSE scores[CHOOSE j \in hits : \A k \in hits : j <= k].score

\* analyze_filenames_batch after the response has arrived; files is a
\* sequence of <<path, name>>
analyze_filenames_batch(files, response) ==
    LET scores == parse_scores(response)
    IN  [i \in 1..Len(files) |-> find_score(scores, files[i][2])]

\* the batch built from one chunk of the candidates
batch_of(chunk) == [i \in 1..Len(chunk) |-> <<chunk[i], file_name(chunk[i])>>]

\* chunk.iter().cloned().zip(scores)
zip(chunk, scores) == [i \in 1..Min(Len(chunk), Len(scores)) |-> <<chunk[i], scores[i]>>]

\* candidates.chunks(BATCH_SIZE): the k-th batch of paths, k from 1
batch_chunk(candidates, k) ==
    SubSeq(candidates, (k - 1) * BATCH_SIZE + 1, Min(k * BATCH_SIZE, Len(candidates)))

\* a variant of batch_count with one batch more
batch_count_extra(candidates) == (Len(candidates) + BATCH_SIZE - 1) \div BATCH_SIZE + 1

\* the number of chunks candidates.chunks(BATCH_SIZE) yields
batch_count(candidates) == (Len(candidates) + BATCH_SIZE - 1) \div BATCH_SIZE

(***************************************************************************)
(* Sorting                                                                 *)
(***************************************************************************)
\* a variant of merge_runs that lets the right run win the ties
merge_runs_right_first(left, right) ==
    LET place == <<>> \o [i \in 1..Len(left) |->
                     i + Cardinality({j \in 1..Len(right) : right[j][2] >= left[i][2]})]
    IN  [p \in 1..(Len(left) + Len(right)) |->
            IF \E i \in 1..Len(left) : place[i] = p
            THEN left[CHOOSE i \in 1..Len(left) : place[i] = p]
            ELSE right[p - Cardinality({i \in 1..Len(left) : place[i] < p})]]

\* the merge step of the stable sort under |a, b| b.partial_cmp(a): an
\* element of the left run goes after the elements of the right run that
\* compare Less than it (a higher score), and before those that compare
\* Equal; the elements of the right run fill the other places in order
merge_runs(left, right) ==
    LET place == <<>> \o [i \in 1..Len(left) |->
                     i + Cardinality({j \in 1..Len(right) : right[j][2] > left[i][2]})]
    IN  [p \in 1..(Len(left) + Len(right)) |->
            IF \E i \in 1..Len(left) : place[i] = p
            THEN left[CHOOSE i \in 1..Len(left) : place[i] = p]
            ELSE right[p - Cardinality({i \in 1..Len(left) : place[i] < p})]]

RECURSIVE sort_by_score_desc(_)
\* scored_candidates.sort_by(|(_, a), (_, b)| b.partial_cmp(a).unwrap_or(Equal)):
\* slice::sort_by, a stable merge sort (no score is NaN: JSON has none)
sort_by_score_desc(v) ==
    IF Len(v) <= 1 THEN v
    ELSE LET mid == Len(v) \div 2
         IN  merge_runs(sort_by_score_desc(SubSeq(v, 1, mid)),
                        sort_by_score_desc(SubSeq(v, mid + 1, Len(v))))

any_positive(cands) == \E i \in 1..Len(cands) : cands[i][2] > 0

(***************************************************************************)
(* The retry loops                                                         *)
(***************************************************************************)
\* a variant of retry_step that returns the list of the last attempt when the
\* tries run out
retry_step_keeps_last(cands, tc) ==
    IF cands = <<>> THEN [next |-> "return", val |-> <<>>, try_count |-> tc]
    ELSE IF any_positive(cands) THEN [next |-> "return", val |-> cands, try_count |-> tc]
    ELSE IF tc + 1 < MAX_SORT_TRY_COUNT
         THEN [next |-> "again", val |-> <<>>, try_count |-> tc + 1]
         ELSE [next |-> "return", val |-> cands, try_count |-> tc + 1]

\* a variant of search_step that takes an empty collection for an attempt
\* without a relevant file
search_step_retries_empty(cands, tc) ==
    IF any_positive(cands) THEN [next |-> "second_pass", val |-> cands, try_count |-> tc]
    ELSE IF tc + 1 < SEARCH_TRY_LIMIT
         THEN [next |-> "again", val |-> cands, try_count |-> tc + 1]
         ELSE [next |-> "exit", val |-> <<>>, try_count |-> tc + 1]

\* collect_sort_with_retry: the loop body after collect_and_sort_candidates
\* returned cands, and the loop test that follows it
retry_step(cands, tc) ==
    IF cands = <<>> THEN [next |-> "return", val |-> <<>>, try_count |-> tc]
    ELSE IF any_positive(cands) THEN [next |-> "return", val |-> cands, try_count |-> tc]
    ELSE IF tc + 1 < MAX_SORT_TRY_COUNT
         THEN [next |-> "again", val |-> <<>>, try_count |-> tc + 1]
         ELSE [next |-> "return", val |-> <<>>, try_count |-> tc + 1]

\* search_directory: the same place of its own loop; `candidates` keeps the
\* list of the last attempt when the loop runs out
search_step(cands, tc) ==
    IF cands = <<>> THEN [next |-> "exit", val |-> cands, try_count |-> tc]
    ELSE IF any_positive(cands) THEN [next |-> "second_pass", val |-> cands, try_count |-> tc]
    ELSE IF tc + 1 < SEARCH_TRY_LIMIT
         THEN [next |-> "again", val |-> cands, try_count |-> tc + 1]
         ELSE [next |-> "second_pass", val |-> cands, try_count |-> tc + 1]

(***************************************************************************)
(* Verifying one chunk                                                     *)
(*   A response to analyze_content is                                      *)
(*     [kind |-> "error"]                       generate failed            *)
(*     [kind |-> "garbage"]                     no AnalysisResponse        *)
(*     [kind |-> "verdict", has_match, analysis]  analysis "null" for null *)
(*                                              or a missing field         *)
(***************************************************************************)
None == [some |-> FALSE]
Some(v) == [some |-> TRUE, v |-> v]

\* a variant of analyze_content that takes a text it cannot parse for a match
analyze_content_lenient(response) ==
    IF response.kind = "error" THEN Err
    ELSE IF response.kind = "garbage" THEN Ok(Some("unparsed"))
    ELSE IF ~response.has_match THEN Ok(None)
    ELSE Ok(IF response.analysis = "null" THEN None ELSE Some(response.analysis))

\* analyze_content: Result<Option<String>>
analyze_content(response) ==
    IF response.kind = "error" THEN Err
    ELSE IF response.kind = "garbage" THEN Err
    ELSE IF ~response.has_match THEN Ok(None)
    ELSE Ok(IF response.analysis = "null" THEN None ELSE Some(response.analysis))

\* if let Ok(Some(relevance)) = self.analyze_content(..).await
is_match(result) == result.ok /\ result.val.some

(***************************************************************************)
(* Worlds: the directory trees and ignore lists the runs are made in       *)
(***************************************************************************)
Ascii(n) == IF n = 0 THEN <<>> ELSE <<[unit |-> <<97>>, n |-> n]>>
File(content) == [kind |-> "file", metadata |-> TRUE, readable |-> TRUE, content |-> content]
Dir(entries) == [kind |-> "dir", readable |-> TRUE, entries |-> entries]
Entry(name, node) == [name |-> name, node |-> node]

\* the number of files of the wide tree: one more than a batch holds
WideFiles == BATCH_SIZE + 1

\* three files of 3, 1 and 0 chunks, an ignored directory, a file whose
\* metadata cannot be read and a file whose content cannot be read
SmallTree ==
    Dir(<<Entry("a.rs", File(Ascii(4500))),
          Entry("nometa", [File(Ascii(10)) EXCEPT !.metadata = FALSE]),
          Entry("target", Dir(<<Entry("t.rs", File(Ascii(10)))>>)),
          Entry("noread", [File(Ascii(10)) EXCEPT !.readable = FALSE]),
          Entry("b.rs", File(Ascii(10))),
          Entry("src", Dir(<<Entry("c.rs", File(Ascii(0)))>>))>>)

\* nothing eligible: an ignored directory, a binary file and a file over the cap
BareTree ==
    Dir(<<Entry("target", Dir(<<Entry("t.rs", File(Ascii(10)))>>)),
          Entry("blob", File(<<[unit |-> <<0>>, n |-> BINARY_THRESHOLD + 1]>>)),
          Entry("big", File(Ascii(MAX_FILE_SIZE + 1)))>>)

\* two batches: f1 has one chunk, the last file two, the others are empty
WideTree ==
    Dir([i \in 1..WideFiles |->
            Entry("f" \o ToString(i),
                  File(IF i = 1 THEN Ascii(10)
                       ELSE IF i = WideFiles THEN Ascii(CHUNK_SIZE + 1)
                       ELSE Ascii(0)))])

\* an unreadable directory below the root, and one below an ignored prefix
LockedTree ==
    Dir(<<Entry("a.rs", File(Ascii(10))),
          Entry("target", Dir(<<Entry("deep", [Dir(<<>>) EXCEPT !.readable = FALSE])>>)),
          Entry("src", Dir(<<Entry("priv", [Dir(<<>>) EXCEPT !.readable = FALSE])>>))>>)

\* as LockedTree, the unreadable directory being only the ignored one
LockedIgnoredTree ==
    Dir(<<Entry("a.rs", File(Ascii(10))),
          Entry("target", Dir(<<Entry("deep", [Dir(<<>>) EXCEPT !.readable = FALSE])>>))>>)

DefaultIgnore == <<<<".git">>, <<"target">>, <<"node_modules">>>>

Trees ==
    [small |-> SmallTree, bare |-> BareTree, wide |-> WideTree,
     locked |-> LockedTree, lockedignored |-> LockedIgnoredTree]

\* the directory keeps its files through the run
Never == SEARCH_TRY_LIMIT + 1

\* a world: the tree, the files whose re-read in the second pass fails (they
\* vanished after the collection), and the value of try_count from which the
\* directory holds nothing eligible any more
Worlds ==
    {[tree |-> "small", gone |-> g, emptied |-> Never] :
        g \in {{}, {<<"a.rs">>}, {<<"b.rs">>}, {<<"src", "c.rs">>}}}
    \cup {[tree |-> "small", gone |-> {}, emptied |-> e] : e \in 1..(SEARCH_TRY_LIMIT - 1)}
    \cup {[tree |-> "wide", gone |-> g, emptied |-> Never] : g \in {{}, {<<"f2">>}}}
    \cup {[tree |-> t, gone |-> {}, emptied |-> Never] :
             t \in {"bare", "locked", "lockedignored"}}

(***************************************************************************)
(* Oracle responses                                                        *)
(***************************************************************************)
\* the scores the oracle gives in the runs
RunScores == {0, 2, 9}

\* batches of at most this many names get every scoring of their names
MaxEnumNames == 3

Names(batch) == {batch[i][2] : i \in 1..Len(batch)}

\* the entries that give the files at the positions in named the scores f,
\* in batch order
RECURSIVE EntriesOf(_, _, _, _)
EntriesOf(batch, named, f, i) ==
    IF i > Len(batch) THEN <<>>
    ELSE (IF i \in named THEN <<[filename |-> batch[i][2], score |-> f[i]]>> ELSE <<>>)
         \o EntriesOf(batch, named, f, i + 1)

\* the response texts the oracle may give for a batch
ScoreResponses(batch) ==
    {[kind |-> "garbage"]}
    \cup IF Len(batch) <= MaxEnumNames
         THEN {[kind |-> k, entries |-> EntriesOf(batch, named, f, 1)] :
                  k \in {"object", "array"}, named \in SUBSET (1..Len(batch)),
                  f \in [1..Len(batch) -> RunScores]}
         ELSE {[kind |-> "object",
                entries |-> [i \in 1..Len(batch) |-> [filename |-> batch[i][2], score |-> 0]]],
               [kind |-> "array",
                entries |-> <<[filename |-> batch[1][2], score |-> 9]>>],
               [kind |-> "object",
                entries |-> <<[filename |-> batch[Len(batch)][2], score |-> 2],
                              [filename |-> batch[1][2], score |-> 9]>>],
               [kind |-> "array",
                entries |-> <<[filename |-> batch[1][2]]>>]}

VerdictResponses ==
    {[kind |-> "error"], [kind |-> "garbage"]}
    \cup {[kind |-> "verdict", has_match |-> FALSE, analysis |-> "null"],
          [kind |-> "verdict", has_match |-> TRUE, analysis |-> "null"],
          [kind |-> "verdict", has_match |-> TRUE, analysis |-> "related"]}

(***************************************************************************)
(* State                                                                   *)
(***************************************************************************)
VARIABLES
    api,                \* the entry point of the run
    world,              \* the world of the run
    pc,                 \* where the run is
    try_count,          \* try_count of the retry loop
    candidates,         \* what collect_candidates returned in this attempt
    scored_candidates,  \* scored_candidates of collect_and_sort_candidates
    batch,              \* the number of the batch to send next
    ranked,             \* `candidates` of search_directory, or the value
                        \* collect_sort_with_retry returns
    file,               \* the position in ranked of the candidate at hand
    chunk,              \* the number of the chunk to send next
    ret,                \* "none", then "ok" or "err": the Result returned
    stdout,             \* the lines printed
    log,                \* the calls made: collections and oracle calls
    reply,              \* the response the last oracle call received
    arg,                \* the input of a function applied on its own
    res                 \* its result

run_but_pc == <<api, world, try_count, candidates, scored_candidates, batch, ranked,
                file, chunk, ret, stdout, log, reply>>
run == <<run_but_pc, pc>>
vars == <<run, arg, res>>

Tree == IF try_count >= world.emptied THEN BareTree ELSE Trees[world.tree]
Ignore == DefaultIgnore

\* the state before one function is applied to the input arg
FnInit(name, inputs) ==
    /\ api = name /\ world = [tree |-> "bare", gone |-> {}, emptied |-> Never]
    /\ pc = "call"
    /\ arg \in inputs /\ res = <<>>
    /\ try_count = 0 /\ candidates = <<>> /\ scored_candidates = <<>> /\ batch = 0
    /\ ranked = <<>> /\ file = 0 /\ chunk = 0 /\ ret = "none"
    /\ stdout = <<>> /\ log = <<>> /\ reply = [kind |-> "none"]

Init ==
    /\ api \in {"search_directory", "collect_sort_with_retry"}
    /\ world \in Worlds
    /\ pc = "collect"
    /\ try_count = 0 /\ candidates = <<>> /\ scored_candidates = <<>> /\ batch = 0
    /\ ranked = <<>> /\ file = 0 /\ chunk = 0 /\ ret = "none"
    /\ stdout = <<>> /\ log = <<>> /\ reply = [kind |-> "none"]
    /\ arg = <<>> /\ res = <<>>

\* the text of the candidate at position i of the ranked list
TextOf(i) == from_utf8_lossy(Lookup(Tree, ranked[i][1]).content)

\* the run returns r
Return(r) == pc' = "done" /\ ret' = r

\* the for loop of the second pass goes on to the candidate after position i of list
NextCandidate(list, i) ==
    IF i < Len(list)
    THEN pc' = "read" /\ file' = i + 1 /\ chunk' = 0 /\ ret' = ret
    ELSE Return("ok") /\ file' = i /\ chunk' = 0

\* what follows collect_and_sort_candidates returning cands
AfterSort(cands) ==
    IF api = "collect_sort_with_retry"
    THEN LET s == retry_step(cands, try_count)
         IN  /\ try_count' = s.try_count
             /\ ranked' = s.val
             /\ stdout' = stdout
             /\ file' = file /\ chunk' = chunk
             /\ IF s.next = "again" THEN pc' = "collect" /\ ret' = ret ELSE Return("ok")
    ELSE LET s == search_step(cands, try_count)
         IN  /\ try_count' = s.try_count
             /\ ranked' = s.val
             /\ CASE s.next = "exit" ->
                        /\ stdout' = Append(stdout, [line |-> "No candidates found"])
                        /\ Return("ok") /\ file' = file /\ chunk' = chunk
                  [] s.next = "again" ->
                        /\ stdout' = stdout
                        /\ pc' = "collect" /\ ret' = ret /\ file' = file /\ chunk' = chunk
                  [] s.next = "second_pass" ->
                        /\ stdout' = Append(stdout, [line |-> "Sorted candidates", list |-> s.val])
                        /\ NextCandidate(s.val, 0)

\* collect_and_sort_candidates up to its first oracle call: the collection
Collect ==
    /\ pc = "collect"
    /\ LET got == collect_candidates(Tree, <<>>, Ignore)
       IN  IF ~got.ok
           THEN /\ log' = Append(log, [call |-> "collect", attempt |-> try_count + 1])
                /\ Return("err")
                /\ UNCHANGED <<try_count, candidates, scored_candidates, batch, ranked,
                               file, chunk, stdout>>
           ELSE /\ log' = Append(log, [call |-> "collect", attempt |-> try_count + 1,
                                       found |-> Len(got.val)])
                /\ candidates' = got.val
                /\ scored_candidates' = <<>>
                /\ IF got.val = <<>>
                   THEN batch' = 0 /\ AfterSort(sort_by_score_desc(<<>>))
                   ELSE /\ batch' = 1 /\ pc' = "score"
                        /\ UNCHANGED <<try_count, ranked, file, chunk, ret, stdout>>
    /\ UNCHANGED <<api, world, reply, arg, res>>

\* one pass of the batch loop: the oracle answers, the scores are appended;
\* after the last batch the list is sorted and handed to the retry loop
ScoreBatch ==
    /\ pc = "score"
    /\ log' = Append(log, [call |-> "score", attempt |-> try_count + 1, batch |-> batch])
    /\ LET chunk_ == batch_chunk(candidates, batch)
           files == batch_of(chunk_)
       IN  \E response \in ScoreResponses(files) :
             LET scores == analyze_filenames_batch(files, response)
                 scored == scored_candidates \o zip(chunk_, scores)
             IN  /\ reply' = response
                 /\ scored_candidates' = scored
                 /\ IF batch < batch_count(candidates)
                    THEN /\ batch' = batch + 1
                         /\ UNCHANGED <<pc, try_count, ranked, file, chunk, ret, stdout>>
                    ELSE /\ batch' = batch
                         /\ AfterSort(sort_by_score_desc(scored))
    /\ UNCHANGED <<api, world, candidates, arg, res>>

\* a variant of ScoreBatchFail that scores the batch 0 and goes on
ScoreBatchFail_scores_zero ==
    /\ pc = "score"
    /\ log' = Append(log, [call |-> "score", attempt |-> try_count + 1, batch |-> batch])
    /\ LET chunk_ == batch_chunk(candidates, batch)
           scored == scored_candidates \o [i \in 1..Len(chunk_) |-> <<chunk_[i], 0>>]
       IN  /\ reply' = [kind |-> "error"]
           /\ scored_candidates' = scored
           /\ IF batch < batch_count(candidates)
              THEN /\ batch' = batch + 1
                   /\ UNCHANGED <<pc, try_count, ranked, file, chunk, ret, stdout>>
              ELSE /\ batch' = batch
                   /\ AfterSort(sort_by_score_desc(scored))
    /\ UNCHANGED <<api, world, candidates, arg, res>>

\* the oracle call of a batch fails: `?` returns the error through both callers
ScoreBatchFail ==
    /\ pc = "score"
    /\ log' = Append(log, [call |-> "score", attempt |-> try_count + 1, batch |-> batch])
    /\ reply' = [kind |-> "error"]
    /\ Return("err")
    /\ UNCHANGED <<api, world, try_count, candidates, scored_candidates, batch, ranked,
                   file, chunk, stdout, arg, res>>

\* a variant of ReadCandidate in which a failed fs::read ends the run in error
ReadCandidate_aborts ==
    /\ pc = "read"
    /\ IF ranked[file][1] \in world.gone
       THEN /\ stdout' = stdout
            /\ Return("err") /\ file' = file /\ chunk' = chunk
       ELSE /\ stdout' = Append(stdout, [line |-> "Analyzing", path |-> ranked[file][1]])
            /\ IF chunks(TextOf(file)) = <<>>
               THEN NextCandidate(ranked, file)
               ELSE pc' = "chunk" /\ chunk' = 1 /\ file' = file /\ ret' = ret
    /\ UNCHANGED <<api, world, try_count, candidates, scored_candidates, batch, ranked,
                   log, reply, arg, res>>

\* the second pass takes the next candidate: fs::read, the "Analyzing" line,
\* the decoding and the cut into chunks
ReadCandidate ==
    /\ pc = "read"
    /\ IF ranked[file][1] \in world.gone
       THEN /\ stdout' = stdout
            /\ NextCandidate(ranked, file)
       ELSE /\ stdout' = Append(stdout, [line |-> "Analyzing", path |-> ranked[file][1]])
            /\ IF chunks(TextOf(file)) = <<>>
               THEN NextCandidate(ranked, file)
               ELSE pc' = "chunk" /\ chunk' = 1 /\ file' = file /\ ret' = ret
    /\ UNCHANGED <<api, world, try_count, candidates, scored_candidates, batch, ranked,
                   log, reply, arg, res>>

\* a variant of AnalyzeChunk that returns the error of a failed oracle call
AnalyzeChunk_propagates ==
    /\ pc = "chunk"
    /\ \E response \in VerdictResponses :
         LET result == analyze_content(response)
         IN  /\ reply' = response
             /\ log' = Append(log, [call |-> "verify", path |-> ranked[file][1],
                                    chunk |-> chunk])
             /\ IF response.kind = "error"
                THEN stdout' = stdout /\ Return("err") /\ UNCHANGED <<file, chunk>>
                ELSE IF is_match(result)
                THEN /\ stdout' = Append(stdout, [line |-> "match", path |-> ranked[file][1],
                                                  relevance |-> result.val.v])
                     /\ NextCandidate(ranked, file)
                ELSE /\ stdout' = stdout
                     /\ IF chunk < Len(chunks(TextOf(file)))
                        THEN chunk' = chunk + 1 /\ UNCHANGED <<pc, file, ret>>
                        ELSE NextCandidate(ranked, file)
    /\ UNCHANGED <<api, world, try_count, candidates, scored_candidates, batch, ranked,
                   arg, res>>

\* a variant of AnalyzeChunk without the break after a match
AnalyzeChunk_no_break ==
    /\ pc = "chunk"
    /\ \E response \in VerdictResponses :
         LET result == analyze_content(response)
         IN  /\ reply' = response
             /\ log' = Append(log, [call |-> "verify", path |-> ranked[file][1],
                                    chunk |-> chunk])
             /\ stdout' = IF is_match(result)
                          THEN Append(stdout, [line |-> "match", path |-> ranked[file][1],
                                               relevance |-> result.val.v])
                          ELSE stdout
             /\ IF chunk < Len(chunks(TextOf(file)))
                THEN chunk' = chunk + 1 /\ UNCHANGED <<pc, file, ret>>
                ELSE NextCandidate(ranked, file)
    /\ UNCHANGED <<api, world, try_count, candidates, scored_candidates, batch, ranked,
                   arg, res>>

\* one pass of the chunk loop: the oracle is asked about the chunk
AnalyzeChunk ==
    /\ pc = "chunk"
    /\ \E response \in VerdictResponses :
         LET result == analyze_content(response)
         IN  /\ reply' = response
             /\ log' = Append(log, [call |-> "verify", path |-> ranked[file][1],
                                    chunk |-> chunk])
             /\ IF is_match(result)
                THEN /\ stdout' = Append(stdout, [line |-> "match", path |-> ranked[file][1],
                                                  relevance |-> result.val.v])
                     /\ NextCandidate(ranked, file)
                ELSE /\ stdout' = stdout
                     /\ IF chunk < Len(chunks(TextOf(file)))
                        THEN chunk' = chunk + 1 /\ UNCHANGED <<pc, file, ret>>
                        ELSE NextCandidate(ranked, file)
    /\ UNCHANGED <<api, world, try_count, candidates, scored_candidates, batch, ranked,
                   arg, res>>

Next == Collect \/ ScoreBatch \/ ScoreBatchFail \/ ReadCandidate \/ AnalyzeChunk

Spec == Init /\ [][Next]_vars

(***************************************************************************)
(* The functions on their own                                              *)
(***************************************************************************)
\* sequences over S of length at most n
SeqsUpTo(S, n) == UNION {[1..k -> S] : k \in 0..n}

\* the function returns v
Returned(v) == res' = v /\ pc' = "done" /\ UNCHANGED <<run_but_pc, arg>>

\* ---- analyze_filenames_batch ----
MaxBatch == 2
MaxEntries == 2
ScorerPaths == {<<"a">>, <<"b">>, <<"d", "a">>}
ScorerEntries ==
    {[filename |-> f, score |-> x] : f \in {"a", "x"}, x \in {-5, 0, 15}}
    \cup {[filename |-> f] : f \in {"a", "x"}}
ScorerResponses ==
    {[kind |-> "garbage"]}
    \cup {[kind |-> k, entries |-> e] :
             k \in {"object", "array"}, e \in SeqsUpTo(ScorerEntries, MaxEntries)}
ScorerInputs ==
    {[files |-> batch_of(c), response |-> r] :
        c \in SeqsUpTo(ScorerPaths, MaxBatch), r \in ScorerResponses}

InitScorer == FnInit("analyze_filenames_batch", ScorerInputs)
CallScorer ==
    /\ api = "analyze_filenames_batch" /\ pc = "call"
    /\ Returned(analyze_filenames_batch(arg.files, arg.response))
SpecScorer == InitScorer /\ [][CallScorer]_vars

\* ---- the sort of collect_and_sort_candidates ----
MaxSortLen == 4
SortNames == <<"A", "B", "C", "D", "E", "F", "G", "H">>
SortInputs ==
    {[i \in 1..Len(scores) |-> <<<<SortNames[i]>>, scores[i]>>] :
        scores \in SeqsUpTo({-5, 0, 2, 9}, MaxSortLen)}

InitSort == FnInit("sort_by", SortInputs)
CallSort ==
    /\ api = "sort_by" /\ pc = "call"
    /\ Returned(sort_by_score_desc(arg))
SpecSort == InitSort /\ [][CallSort]_vars

\* ---- decoding and chunking, as the second pass does them ----
MaxRuns == 2
RunLens == {1, 500, 1999, 2000, 2001, 2500, 4500}
RunUnits == {<<97>>, <<98>>, <<195, 169>>, <<255>>}
ChunkInputs == SeqsUpTo({[unit |-> u, n |-> n] : u \in RunUnits, n \in RunLens}, MaxRuns)

InitChunks == FnInit("chunks", ChunkInputs)
CallChunks ==
    /\ api = "chunks" /\ pc = "call"
    /\ Returned(chunks(from_utf8_lossy(arg)))
SpecChunks == InitChunks /\ [][CallChunks]_vars

\* ---- collect_candidates ----
MaxDepth == 2
MaxPatterns == 1
TreeNames == <<"a", "b">>
Unreadable == [kind |-> "dir", readable |-> FALSE, entries |-> <<>>]

\* the directories whose entries, each present or not, are among nodes
DirsOver(nodes) ==
    {Dir(ConcatRange([i \in 1..Len(TreeNames) |->
                         IF pick[i].kind = "none" THEN <<>>
                         ELSE <<Entry(TreeNames[i], pick[i])>>], 1, Len(TreeNames))) :
        pick \in [1..Len(TreeNames) -> nodes \cup {[kind |-> "none"]}]}

RECURSIVE NodesUpTo(_)
\* the files and directories of depth at most d, a plain file having depth 0
NodesUpTo(d) ==
    IF d = 0 THEN {File(Ascii(10))}
    ELSE LET below == NodesUpTo(d - 1)
         IN  below \cup DirsOver(below) \cup {Unreadable}

\* trees of plain files, with the ignore lists over a, b and a/b
ShapeInputs ==
    {[tree |-> t, ignore_paths |-> ig] :
        t \in DirsOver(NodesUpTo(MaxDepth - 1)),
        ig \in SeqsUpTo({<<"a">>, <<"b">>, <<"a", "b">>}, MaxPatterns)}

\* the kinds of file the filters tell apart
FileKinds ==
    {File(Ascii(0)), File(Ascii(10)),
     File(Ascii(MAX_FILE_SIZE)), File(Ascii(MAX_FILE_SIZE + 1)),
     File(<<[unit |-> <<0>>, n |-> BINARY_THRESHOLD + 1]>>),
     File(<<[unit |-> <<195, 169>>, n |-> 100]>>),
     File(<<[unit |-> <<97>>, n |-> 5], [unit |-> <<255>>, n |-> 1]>>),
     [File(Ascii(10)) EXCEPT !.metadata = FALSE],
     [File(Ascii(10)) EXCEPT !.readable = FALSE]}

\* flat trees of every kind of file
FileInputs ==
    {[tree |-> t, ignore_paths |-> ig] :
        t \in DirsOver(FileKinds), ig \in {<<>>, <<<<"a">>>>}}

\* trees with directories that cannot be read one level further down
LockedInputs ==
    {[tree |-> t, ignore_paths |-> ig] :
        t \in DirsOver(DirsOver({File(Ascii(10)), Unreadable}) \cup {File(Ascii(10))}),
        ig \in SeqsUpTo({<<"a">>, <<"b">>, <<"a", "b">>}, MaxPatterns)}

InitCollect == FnInit("collect_candidates", ShapeInputs \cup FileInputs \cup LockedInputs)
CallCollect ==
    /\ api = "collect_candidates" /\ pc = "call"
    /\ Returned(collect_candidates(arg.tree, <<>>, arg.ignore_paths))
SpecCollect == InitCollect /\ [][CallCollect]_vars

\* ---- is_binary_file ----
MaxBinaryRuns == 2
BinaryLens == {1, 300, 301, 700, 1000}
BinaryUnits == {<<97>>, <<0>>, <<127>>, <<128>>, <<195, 169>>}
BinaryInputs ==
    SeqsUpTo({[unit |-> u, n |-> n] : u \in BinaryUnits, n \in BinaryLens}, MaxBinaryRuns)

InitBinary == FnInit("is_binary_file", BinaryInputs)
CallBinary ==
    /\ api = "is_binary_file" /\ pc = "call"
    /\ Returned(is_binary_file(arg))
SpecBinary == InitBinary /\ [][CallBinary]_vars

(***************************************************************************)
(* Properties                                                              *)
(***************************************************************************)
\* the collect+score cycles started so far
Attempts == Cardinality({i \in 1..Len(log) : log[i].call = "collect"})
VerifyCalls == {i \in 1..Len(log) : log[i].call = "verify"}
Printed(l) == {i \in 1..Len(stdout) : stdout[i].line = l}

NonIncreasing(list) == \A i \in 1..(Len(list) - 1) : list[i][2] >= list[i + 1][2]
SameElements(l1, l2) ==
    /\ Len(l1) = Len(l2)
    /\ \A i \in 1..Len(l1) :
          Cardinality({j \in 1..Len(l1) : l1[j] = l1[i]})
          = Cardinality({j \in 1..Len(l2) : l2[j] = l1[i]})

\* C1: when each of the 3 attempts of search_directory collected files and
\* scored all of them 0, the run ends with an empty result reported as
\* "No candidates found": it has returned success, no chunk was sent to the
\* oracle and no candidate was printed as analyzed.
C1_AllZeroEndsEmpty ==
    (/\ api = "search_directory" /\ pc = "done"
     /\ try_count = SEARCH_TRY_LIMIT
     /\ candidates # <<>>
     /\ \A i \in 1..Len(scored_candidates) : scored_candidates[i][2] = 0)
    => /\ ret = "ok"
       /\ ranked = <<>>
       /\ Printed("No candidates found") # {}
       /\ Printed("Analyzing") = {}
       /\ VerifyCalls = {}

\* C2: collect_sort_with_retry starts at most 3 collect+score cycles; it goes
\* on to another cycle only after a cycle that collected files and scored none
\* above 0; when the third such cycle ends it returns Ok with an empty list;
\* and when a cycle scores some file above 0 it returns, in that cycle, the
\* whole list of that cycle in non-increasing order.
C2_BoundedRetry ==
    api = "collect_sort_with_retry" =>
       /\ Attempts <= MAX_SORT_TRY_COUNT
       /\ (pc = "collect" /\ Attempts > 0) =>
             /\ candidates # <<>>
             /\ ~any_positive(scored_candidates)
             /\ Attempts = try_count
       /\ try_count = MAX_SORT_TRY_COUNT => pc = "done" /\ ret = "ok" /\ ranked = <<>>
       /\ (pc = "done" /\ ret = "ok") =>
             IF any_positive(scored_candidates)
             THEN /\ ranked # <<>>
                  /\ SameElements(ranked, scored_candidates)
                  /\ NonIncreasing(ranked)
                  /\ Attempts = try_count + 1
             ELSE ranked = <<>>

\* the third attempt is the first to score a file above 0, and its list is returned
C2_Witness ==
    /\ api = "collect_sort_with_retry" /\ pc = "done" /\ ret = "ok"
    /\ try_count = MAX_SORT_TRY_COUNT - 1
    /\ Attempts = MAX_SORT_TRY_COUNT
    /\ ranked # <<>>

\* the entries a response text deserializes to: those of an object or of an
\* array all of whose entries carry a filename and a score, none otherwise
Received(response) ==
    IF response.kind \in {"object", "array"}
       /\ \A j \in 1..Len(response.entries) : DOMAIN response.entries[j] = {"filename", "score"}
    THEN response.entries
    ELSE <<>>

\* s is the score of the first of entries that names name, 0 when none does
IsFirstScore(s, entries, name) ==
    IF \E j \in 1..Len(entries) : entries[j].filename = name
    THEN \E j \in 1..Len(entries) :
            /\ entries[j].filename = name
            /\ \A k \in 1..(j - 1) : entries[k].filename # name
            /\ s = entries[j].score
    ELSE s = 0

\* C3: for every batch and every response received, analyze_filenames_batch
\* returns as many scores as the batch has files; the i-th is the score of the
\* first entry of the response whose filename is the i-th display name, and 0
\* when the response has no such entry or cannot be deserialized.
C3_ScorerAligned ==
    (api = "analyze_filenames_batch" /\ pc = "done") =>
       /\ Len(res) = Len(arg.files)
       /\ \A i \in 1..Len(arg.files) :
             IsFirstScore(res[i], Received(arg.response), arg.files[i][2])

\* two files of the same display name and a third; the response names the
\* shared name twice, with different scores
C3_Witness ==
    /\ api = "analyze_filenames_batch" /\ pc = "done"
    /\ arg.files = batch_of(<<<<"a">>, <<"d", "a">>>>)
    /\ arg.response = [kind |-> "array",
                       entries |-> <<[filename |-> "a", score |-> 15],
                                     [filename |-> "a", score |-> -5]>>]
    /\ res = <<15, 15>>

\* C4: a response to a scoring batch that deserializes neither way raises no
\* error; every file of the batch is appended with score 0, and the batch
\* after it is the next to be sent.  Every batch, after such a batch too, is
\* appended with the scores of its own response.
C4_MalformedBatchScoresZero ==
    [][(pc = "score" /\ reply'.kind # "error") =>
          LET chunk_ == batch_chunk(candidates, batch)
              off == Len(scored_candidates)
              unparsable == reply'.kind = "garbage" \/ Received(reply') = <<>>
          IN  /\ ret' # "err"
              /\ Len(scored_candidates') = off + Len(chunk_)
              /\ SubSeq(scored_candidates', 1, off) = scored_candidates
              /\ \A i \in 1..Len(chunk_) :
                    /\ scored_candidates'[off + i][1] = chunk_[i]
                    /\ IsFirstScore(scored_candidates'[off + i][2], Received(reply'),
                                    file_name(chunk_[i]))
                    /\ unparsable => scored_candidates'[off + i][2] = 0
              /\ batch * BATCH_SIZE < Len(candidates) =>
                    /\ pc' = "score" /\ batch' = batch + 1
                    /\ try_count' = try_count /\ candidates' = candidates]_vars

\* the first batch of two got garbage: its files have score 0 and the second
\* batch is the next to be sent
C4_Witness ==
    /\ pc = "score" /\ batch = 2 /\ reply.kind = "garbage"
    /\ Len(candidates) = BATCH_SIZE + 1
    /\ Len(scored_candidates) = BATCH_SIZE
    /\ \A i \in 1..BATCH_SIZE : scored_candidates[i][2] = 0

\* C5: in the second pass, when the response to a chunk deserializes with
\* has_match = true, whatever its analysis field holds, a match line is
\* printed for the file and no later chunk of the file is sent.
C5_StopsAtFirstMatch ==
    [][(pc = "chunk" /\ reply'.kind = "verdict" /\ reply'.has_match) =>
          /\ Len(stdout') = Len(stdout) + 1
          /\ stdout'[Len(stdout')].line = "match"
          /\ stdout'[Len(stdout')].path = ranked[file][1]
          /\ ~(pc' = "chunk" /\ file' = file)]_vars

\* C6: no path of the collector's output has an ignore pattern as a
\* component-wise prefix of its path relative to the search root.
C6_NoIgnoredPath ==
    (api = "collect_candidates" /\ pc = "done" /\ res.ok) =>
       \A i \in 1..Len(res.val) :
          \A j \in 1..Len(arg.ignore_paths) :
             ~starts_with(res.val[i], arg.ignore_paths[j])

\* C7: every score analyze_filenames_batch returns lies in [0, 1].
C7_ScoresInUnitInterval ==
    (api = "analyze_filenames_batch" /\ pc = "done") =>
       \A i \in 1..Len(res) : 0 <= res[i] /\ res[i] <= 10

\* the place in list of the candidate of path p
PlaceOf(list, p) == CHOOSE i \in 1..Len(list) : list[i][1] = p

\* C8: the sorted list is a permutation of the scored files, non-increasing
\* by score, two candidates of equal score keeping their collection order;
\* [(A,0.2),(B,0.9),(C,0.9)] becomes [(B,0.9),(C,0.9),(A,0.2)].
C8_StableSort ==
    (api = "sort_by" /\ pc = "done") =>
       /\ SameElements(res, arg)
       /\ NonIncreasing(res)
       /\ \A i \in 1..Len(res) : \A j \in (i + 1)..Len(res) :
             res[i][2] = res[j][2] => PlaceOf(arg, res[i][1]) < PlaceOf(arg, res[j][1])
       /\ arg = <<<<<<"A">>, 2>>, <<<<"B">>, 9>>, <<<<"C">>, 9>>>>
             => res = <<<<<<"B">>, 9>>, <<<<"C">>, 9>>, <<<<"A">>, 2>>>>

\* the example list [(A,0.2),(B,0.9),(C,0.9)], sorted
C8_Witness ==
    /\ api = "sort_by" /\ pc = "done"
    /\ arg = <<<<<<"A">>, 2>>, <<<<"B">>, 9>>, <<<<"C">>, 9>>>>
    /\ res = <<<<<<"B">>, 9>>, <<<<"C">>, 9>>, <<<<"A">>, 2>>>>

\* the paths of the files of a tree, dir being the path of node
RECURSIVE FilesBelow(_, _)
FilesBelow(node, dir) ==
    IF node.kind = "file" THEN {dir}
    ELSE UNION {FilesBelow(node.entries[i].node, Append(dir, node.entries[i].name)) :
                   i \in 1..Len(node.entries)}

InOutput(p) == \E i \in 1..Len(res.val) : res.val[i] = p

\* C9: the collector leaves out every file over 1 MiB, and takes every file
\* that is readable, not under an ignore pattern (by its path relative to the
\* search root), at most 1 MiB long, valid UTF-8 and not binary.
C9_SizeCap ==
    (api = "collect_candidates" /\ pc = "done" /\ res.ok) =>
       \A p \in FilesBelow(arg.tree, <<>>) :
          LET node == Lookup(arg.tree, p)
          IN  /\ ByteLen(node.content) > MAX_FILE_SIZE => ~InOutput(p)
              /\ (/\ node.metadata /\ node.readable
                  /\ ~should_ignore(p, <<>>, arg.ignore_paths)
                  /\ ByteLen(node.content) <= MAX_FILE_SIZE
                  /\ from_utf8_ok(node.content)
                  /\ ~is_binary_file(node.content)) => InOutput(p)

RECURSIVE Concat(_)
Concat(seqs) == IF seqs = <<>> THEN <<>> ELSE Head(seqs) \o Concat(Tail(seqs))

RECURSIVE Packed(_)
\* the text with neighbouring runs of one character joined
Packed(text) ==
    IF Len(text) <= 1 THEN text
    ELSE LET rest == Packed(Tail(text))
         IN  IF Head(text).ch = Head(rest).ch
             THEN <<[ch |-> Head(text).ch, n |-> Head(text).n + Head(rest).n]>> \o Tail(rest)
             ELSE <<Head(text)>> \o rest

RECURSIVE CharAt(_, _)
\* the i-th character of text, i from 1
CharAt(text, i) ==
    IF i <= Head(text).n THEN Head(text).ch ELSE CharAt(Tail(text), i - Head(text).n)

\* C10: the chunks of a decoded text have at most 2000 characters each, all
\* but the last exactly 2000, none is empty, and put together in order they
\* are the text; 4500 characters give chunks of 2000, 2000 and 500.
C10_Chunking ==
    (api = "chunks" /\ pc = "done") =>
       LET text == from_utf8_lossy(arg)
       IN  /\ \A k \in 1..Len(res) : CharLen(res[k]) >= 1 /\ CharLen(res[k]) <= CHUNK_SIZE
           /\ \A k \in 1..(Len(res) - 1) : CharLen(res[k]) = CHUNK_SIZE
           /\ Packed(Concat(res)) = Packed(text)
           /\ \A k \in 1..Len(res) : \A o \in {1, CharLen(res[k])} :
                 CharAt(res[k], o) = CharAt(text, (k - 1) * CHUNK_SIZE + o)
           /\ CharLen(text) = 4500 =>
                 [k \in 1..Len(res) |-> CharLen(res[k])] = <<2000, 2000, 500>>

\* 4500 characters of two kinds, cut inside the second run
C10_Witness ==
    /\ api = "chunks" /\ pc = "done"
    /\ arg = <<[unit |-> <<195, 169>>, n |-> 2000], [unit |-> <<97>>, n |-> 2500]>>
    /\ [k \in 1..Len(res) |-> CharLen(res[k])] = <<2000, 2000, 500>>

RECURSIVE ByteAt(_, _)
\* the i-th byte of content, i from 1
ByteAt(content, i) ==
    LET first == Head(content)
        w == Len(first.unit)
    IN  IF i <= w * first.n THEN first.unit[((i - 1) % w) + 1]
        ELSE ByteAt(Tail(content), i - w * first.n)

\* how many of the first k bytes of content are 0 or at least 128
HighOrNulAmong(content, k) ==
    Cardinality({i \in 1..k : ByteAt(content, i) = 0 \/ ByteAt(content, i) >= 128})

\* C11: is_binary_file counts the bytes equal to 0 or >= 128 among the first
\* min(len, 1000) bytes only, and answers binary exactly when that count is
\* over 300: never for a count of 0 to 300, always for 301 or more, whatever
\* the bytes after the first 1000 are.
C11_BinaryHeuristic ==
    (api = "is_binary_file" /\ pc = "done") =>
       LET len == ByteLen(arg)
           count == HighOrNulAmong(arg, Min(len, 1000))
       IN  /\ res = (count > 300)
           /\ count \in 0..300 => res = FALSE
           /\ count >= 301 => res = TRUE

\* 1000 ASCII bytes followed by 301 NUL bytes: not binary
C11_Witness ==
    /\ api = "is_binary_file" /\ pc = "done"
    /\ arg = <<[unit |-> <<97>>, n |-> 1000], [unit |-> <<0>>, n |-> 301]>>
    /\ res = FALSE

RECURSIVE AllDirsReadable(_)
\* read_dir succeeds on the node and on every directory below it
AllDirsReadable(node) ==
    node.kind = "dir" =>
       /\ node.readable
       /\ \A i \in 1..Len(node.entries) : AllDirsReadable(node.entries[i].node)

Collected(p) == \E i \in 1..Len(candidates) : candidates[i] = p

\* the second pass printed the "Analyzing" line of p and, when p has a chunk,
\* sent its first chunk to the oracle
Analyzed(p) ==
    /\ \E i \in Printed("Analyzing") : stdout[i].path = p
    /\ Lookup(Tree, p).content # <<>> =>
          \E i \in VerifyCalls : log[i].path = p /\ log[i].chunk = 1

\* C12: an error on one entry skips that entry only.  In a tree all of whose
\* directories can be read, a collection returns success, leaves out the files
\* whose metadata or content cannot be read and takes every other eligible
\* file.  In the second pass, a candidate whose re-read fails gets no
\* "Analyzing" line and no oracle call, every candidate after it is still
\* analyzed, and the pass ends in success.
C12_SkipsOnlyTheEntry ==
    /\ (log # <<>> /\ log[Len(log)].call = "collect" /\ AllDirsReadable(Tree)) =>
          /\ ret # "err"
          /\ \A p \in FilesBelow(Tree, <<>>) :
                LET node == Lookup(Tree, p)
                IN  /\ (~node.metadata \/ ~node.readable) => ~Collected(p)
                    /\ (/\ node.metadata /\ node.readable
                        /\ ~should_ignore(p, <<>>, Ignore)
                        /\ ByteLen(node.content) <= MAX_FILE_SIZE
                        /\ from_utf8_ok(node.content)
                        /\ ~is_binary_file(node.content)) => Collected(p)
    /\ api = "search_directory" =>
          /\ \A p \in world.gone :
                /\ \A i \in VerifyCalls : log[i].path # p
                /\ \A i \in Printed("Analyzing") : stdout[i].path # p
                /\ (pc = "done" /\ ret = "ok" /\ Printed("Sorted candidates") # {}) =>
                      \A j \in 1..Len(ranked) :
                         (\E i \in 1..(j - 1) : ranked[i][1] = p) => Analyzed(ranked[j][1])
          /\ (pc = "done" /\ Printed("Sorted candidates") # {}) => ret = "ok"

\* the collection left out nometa and noread and took the three others; the
\* re-read of the first candidate failed, and b.rs after it was sent
C12_Witness ==
    /\ api = "search_directory" /\ pc = "done" /\ ret = "ok"
    /\ world.tree = "small" /\ world.gone = {<<"a.rs">>}
    /\ candidates = <<<<"a.rs">>, <<"b.rs">>, <<"src", "c.rs">>>>
    /\ ranked # <<>> /\ ranked[1][1] = <<"a.rs">>
    /\ \E i \in VerifyCalls : log[i].path = <<"b.rs">>

\* C13: when a collection returns no file, the run ends in that attempt with
\* an empty result and success: the collection is the last call of the run,
\* no attempt follows it, and no oracle call is made in that attempt or after
\* it; search_directory reports "No candidates found".
C13_EmptyCollectionEnds ==
    (Attempts > 0 /\ candidates = <<>> /\ ret # "err") =>
       /\ pc = "done" /\ ret = "ok"
       /\ ranked = <<>>
       /\ log[Len(log)].call = "collect"
       /\ Attempts = try_count + 1
       /\ \A i \in 1..Len(log) : log[i].call # "collect" => log[i].attempt < Attempts
       /\ VerifyCalls = {}
       /\ api = "search_directory" =>
             /\ Printed("Analyzing") = {} /\ Printed("Sorted candidates") = {}
             /\ stdout[Len(stdout)].line = "No candidates found"

\* the first attempt scored three files 0, the second found none
C13_Witness ==
    /\ api = "search_directory" /\ pc = "done" /\ ret = "ok"
    /\ world.emptied = 1
    /\ candidates = <<>> /\ Attempts = 2
    /\ Len(log) = 3

\* C14: ignore patterns are matched as component-wise prefixes of the path
\* relative to the search root: an eligible file whose root-relative path
\* begins with no pattern is collected, also when a later component of the
\* path equals a pattern (src/target/x.txt with the pattern target).
C14_RootRelativePrefix ==
    (api = "collect_candidates" /\ pc = "done" /\ res.ok) =>
       \A p \in FilesBelow(arg.tree, <<>>) :
          (/\ FileEligible(Lookup(arg.tree, p))
           /\ \A j \in 1..Len(arg.ignore_paths) : ~starts_with(p, arg.ignore_paths[j]))
          => InOutput(p)

\* C15: in every run, whatever the oracle answers about the chunks of a file,
\* at most one match line is printed for the file.
C15_OneMatchPerFile ==
    \A i \in Printed("match") : \A j \in Printed("match") :
       stdout[i].path = stdout[j].path => i = j

\* a.rs has three chunks; its second chunk matched, the third was not sent,
\* and the run went on to its end
C15_Witness ==
    /\ api = "search_directory" /\ pc = "done"
    /\ Cardinality({i \in Printed("match") : stdout[i].path = <<"a.rs">>}) = 1
    /\ \E i \in VerifyCalls : log[i].path = <<"a.rs">> /\ log[i].chunk = 2
    /\ \A i \in VerifyCalls : log[i].path = <<"a.rs">> => log[i].chunk < 3

\* what the second pass does after a chunk that is not a match: nothing is
\* printed, the next chunk of the file is the next to be sent, and after the
\* last chunk the next candidate is taken, the run ending in success after
\* the last candidate
GoesOnAsNonMatch ==
    /\ stdout' = stdout
    /\ ret' # "err"
    /\ IF chunk * CHUNK_SIZE < CharLen(TextOf(file))
       THEN pc' = "chunk" /\ file' = file /\ chunk' = chunk + 1
       ELSE IF file < Len(ranked)
            THEN pc' = "read" /\ file' = file + 1
            ELSE pc' = "done" /\ ret' = "ok"

\* C16: in the second pass, a chunk whose response does not parse is handled
\* as a chunk answered has_match = false: nothing is printed for it and the
\* next chunk of the same file is sent; after the last chunk of the file the
\* verifier goes on to the next candidate.  A file all of whose chunks got
\* such answers has no match line.
C16_ParseFailureIsNonMatch ==
    [][(/\ pc = "chunk"
        /\ \/ reply'.kind = "garbage"
           \/ reply'.kind = "verdict" /\ ~reply'.has_match)
       => GoesOnAsNonMatch]_vars

\* the second chunk of a.rs got a response that does not parse, and its
\* third chunk is the next to be sent; nothing was printed for a.rs but the
\* "Analyzing" line
C16_Witness ==
    /\ pc = "chunk" /\ chunk = 3 /\ ranked[file][1] = <<"a.rs">>
    /\ reply.kind = "garbage"
    /\ stdout[Len(stdout)] = [line |-> "Analyzing", path |-> <<"a.rs">>]

\* C17: when the oracle call of a scoring batch fails, the run returns the
\* error in that step: the scores of the earlier batches of the attempt reach
\* no result and no output, no attempt follows, and no chunk is ever sent for
\* verification.
C17_ScoringErrorEndsRun ==
    /\ [][(pc = "score" /\ reply'.kind = "error") =>
             /\ pc' = "done" /\ ret' = "err"
             /\ ranked' = ranked /\ stdout' = stdout
             /\ try_count' = try_count]_vars
    /\ []((pc = "done" /\ reply.kind = "error" /\ log[Len(log)].call = "score") =>
             /\ ret = "err"
             /\ VerifyCalls = {}
             /\ Printed("Analyzing") = {} /\ Printed("Sorted candidates") = {}
             /\ Attempts = try_count + 1)

\* search_directory on the wide tree: the first batch was scored, the call of
\* the second failed
C17_Witness ==
    /\ api = "search_directory" /\ pc = "done" /\ ret = "err"
    /\ reply.kind = "error"
    /\ batch = 2 /\ Len(scored_candidates) = BATCH_SIZE

\* C18: a failed oracle call in the second pass does not end the run: the
\* chunk counts as a non-match and the next chunk of the file is sent, every
\* candidate of the list whose re-read succeeds is analyzed, and
\* search_directory returns success.
C18_VerificationErrorGoesOn ==
    /\ [][(pc = "chunk" /\ reply'.kind = "error") => GoesOnAsNonMatch]_vars
    /\ []((/\ api = "search_directory" /\ pc = "done"
           /\ \E i \in VerifyCalls : TRUE) =>
             /\ ret = "ok"
             /\ \A j \in 1..Len(ranked) :
                   ranked[j][1] \notin world.gone => Analyzed(ranked[j][1]))

\* the oracle failed on every chunk of a.rs and of b.rs: all four chunks
\* were sent and the run returned success without a match
C18_Witness ==
    /\ api = "search_directory" /\ pc = "done" /\ ret = "ok"
    /\ reply.kind = "error"
    /\ world.tree = "small" /\ world.gone = {}
    /\ Cardinality(VerifyCalls) = 4
    /\ Printed("match") = {}
    /\ ranked[1][1] = <<"a.rs">>

RECURSIVE UnreadableDirs(_, _)
\* the paths of the directories of a tree on which read_dir fails, dir being
\* the path of node
UnreadableDirs(node, dir) ==
    IF node.kind # "dir" THEN {}
    ELSE IF ~node.readable THEN {dir}
    ELSE UNION {UnreadableDirs(node.entries[i].node, Append(dir, node.entries[i].name)) :
                   i \in 1..Len(node.entries)}

\* some ignore pattern is a component-wise prefix of the root-relative path p
UnderIgnoredPrefix(p, ignore_paths) ==
    \E j \in 1..Len(ignore_paths) : starts_with(p, ignore_paths[j])

\* C19: a directory that cannot be read and is not under an ignored prefix,
\* at any depth, makes collect_candidates return an error without a partial
\* list; a directory that cannot be read and is under an ignored prefix is
\* never read and causes no failure.
C19_UnreadableDirectory ==
    (api = "collect_candidates" /\ pc = "done") =>
       LET locked == UnreadableDirs(arg.tree, <<>>)
       IN  IF \E d \in locked : ~UnderIgnoredPrefix(d, arg.ignore_paths)
           THEN ~res.ok /\ res.val = <<>>
           ELSE res.ok

\* the scoring calls of attempt a, as places in the log
ScoreCalls(a) == {i \in 1..Len(log) : log[i].call = "score" /\ log[i].attempt = a}

\* the number of files the collection of attempt a returned
Found(a) ==
    LET i == CHOOSE i \in 1..Len(log) : log[i].call = "collect" /\ log[i].attempt = a
    IN  IF "found" \in DOMAIN log[i] THEN log[i].found ELSE 0

\* ceil(n / 100)
BatchesFor(n) == (n + 99) \div 100

\* the work of a run of search_directory so far is within the bounds
BoundedWork ==
    /\ Attempts <= 3
    /\ \A a \in 1..Attempts :
          /\ Cardinality({i \in 1..Len(log) :
                             log[i].call = "collect" /\ log[i].attempt = a}) = 1
          /\ Cardinality(ScoreCalls(a)) <= BatchesFor(Found(a))
          /\ \A i \in ScoreCalls(a) :
                log[i].batch = 1 + Cardinality({j \in ScoreCalls(a) : j < i})
          /\ (a < Attempts \/ pc \in {"read", "chunk"} \/ (pc = "done" /\ ret = "ok")) =>
                Cardinality(ScoreCalls(a)) = BatchesFor(Found(a))
    /\ \A n \in {Found(a) : a \in 1..Attempts} :
          (\A a \in 1..Attempts : Found(a) <= n) =>
             Cardinality({i \in 1..Len(log) : log[i].call = "score"}) <= 3 * BatchesFor(n)
    /\ \A i \in VerifyCalls :
          /\ \A j \in VerifyCalls :
                (log[i].path = log[j].path /\ log[i].chunk = log[j].chunk) => i = j
          /\ log[i].chunk >= 1
          /\ (log[i].chunk - 1) * 2000
                < CharLen(from_utf8_lossy(Lookup(Trees[world.tree], log[i].path).content))

\* the steps taken so far: the calls logged, the candidates passed in the
\* second pass, the entry into a chunk loop and the return
Work ==
    Len(log) + file + (IF pc = "chunk" THEN 1 ELSE 0) + (IF pc = "done" THEN 1 ELSE 0)

\* the run is at a point of the program whose step is defined: a batch of
\* the collected files, a candidate of the list, a chunk of the candidate
AtProgramPoint ==
    /\ pc \in {"collect", "score", "read", "chunk", "done"}
    /\ file <= Len(ranked)
    /\ pc = "score" => batch \in 1..BatchesFor(Len(candidates))
    /\ pc \in {"read", "chunk"} => file \in 1..Len(ranked)
    /\ pc = "chunk" => (chunk - 1) * 2000 < CharLen(TextOf(file)) /\ chunk >= 1
    /\ pc = "done" <=> ret # "none"

\* C20: every call returning, a run of search_directory ends, whatever the
\* oracle answers, and its work is bounded: at most 3 attempts; in an attempt
\* that collected n files, ceil(n/100) scoring calls, one per batch in batch
\* order (fewer only when a call failed and ended the run), so at most
\* 3 * ceil(n/100) in all; and at most one verification call per chunk of a
\* candidate, no chunk being sent twice.  The run ends because every step
\* adds to the work done, which these bounds limit, and a run that has not
\* returned is at a point from which it steps.
C20_BoundedWork ==
    /\ [](api = "search_directory" => BoundedWork /\ AtProgramPoint)
    /\ [][api = "search_directory" => Work' > Work]_vars

\* three attempts on the wide tree, two scoring calls each, then both chunks
\* of the last file sent: the run is over
C20_Witness ==
    /\ api = "search_directory" /\ pc = "done" /\ ret = "ok"
    /\ world.tree = "wide"
    /\ Attempts = 3
    /\ Cardinality({i \in 1..Len(log) : log[i].call = "score"}) = 6
    /\ \E i \in VerifyCalls : log[i].chunk = 2
====
